---- MODULE Spec2Model ----
(***************************************************************************)
(* The hash-partitioning shuffle writer of blaze                           *)
(* (native-engine/datafusion-ext/src/shuffle_writer_exec.rs).              *)
(*                                                                         *)
(* One ShuffleRepartitioner is driven by its writer task                   *)
(* (external_shuffle: insert_batch for every input batch, then             *)
(* shuffle_write) while the memory arbiter may call spill() whenever the   *)
(* buffered_partitions mutex is free.  Files and the frozen buffers are    *)
(* sequences of bytes (0..255); a row is [key, id], id being its ingest    *)
(* number.                                                                 *)
(***************************************************************************)
EXTENDS Integers, Sequences, FiniteSets, TLC

\* ------------------------------------------------------------------ bounds
NumPartitions == 2      \* P of the run
BatchSize == 2          \* batch_size of the run
MaxTotalRows == 4       \* rows of all input batches of one run
MaxSpills == 2          \* spill() calls of one run
MaxDigits == 2          \* digits of the mantissas of the decimal values

\* --------------------------------------------------- sizes of the encoding
HeaderLen == 16         \* the two u64 length fields of a frame
LenField == 8           \* one u64, little endian
Seed == 42              \* the hash seed
MinNonZeroCap == 8      \* Vec<u8>: the smallest capacity a growth allocates
RowMemSize == 12        \* batch_byte_size of one row (arrays in memory)
IpcStreamLen == 8       \* Arrow IPC stream: schema message and end marker
IpcRowLen == 4          \* Arrow IPC stream: one row of the record batch
ZstdMagic == 40         \* first byte of the compressed stream
UsizeModulus == 1048576 \* stands for 2^64: usize arithmetic wraps at it

\* the values of the partitioning column; a row travels as one byte
Keys == {0, 1}
KeyRange == Cardinality(Keys)
Max(a, b) == IF a >= b THEN a ELSE b
Min(a, b) == IF a <= b THEN a ELSE b

\* ------------------------------------------------------------- byte codecs
\* n.to_le_bytes()[..k]
RECURSIVE to_le_bytes(_, _)
to_le_bytes(n, k) ==
    IF k = 0 THEN << >> ELSE << n % 256 >> \o to_le_bytes(n \div 256, k - 1)

\* i64::from_le_bytes, as the shuffle reader reads a length or an offset
RECURSIVE from_le_bytes(_)
from_le_bytes(bs) ==
    IF bs = << >> THEN 0 ELSE bs[1] + 256 * from_le_bytes(Tail(bs))

\* ---------------------------------------------------------- hash partitioner
\* i32 remainder of Rust: the sign follows the dividend
Rem(a, b) == IF a >= 0 THEN a % b ELSE -((-a) % b)

\* crate::spark_hash::pmod
pmod(h, n) == Rem(Rem(h, n) + n, n)

\* crate::spark_hash::create_hashes for one row of the one partitioning
\* column: the column value folded into the row's seed
create_hash(key, seed) == (seed + 1) * (key * 37 - 11)

\* hashes_buf.resize(len, 42); create_hashes(...)
hashes(input) == [i \in 1 .. Len(input) |-> create_hash(input[i].key, Seed)]

\* faulty variant: the bucket taken from the row's position, not from its hash
PositionsOf_by_position(input, n, p) ==
    SelectSeq([i \in 1 .. Len(input) |-> i - 1], LAMBDA ix : pmod(ix, n) = p)

\* indices[pmod(*hash, num_output_partitions)].push(index as u64)
PositionsOf(input, n, p) ==
    SelectSeq([i \in 1 .. Len(input) |-> i - 1],
              LAMBDA ix : pmod(hashes(input)[ix + 1], n) = p)

indices(input, n) == [p \in 0 .. (n - 1) |-> PositionsOf(input, n, p)]

\* arrow::compute::take of every column at the positions of one bucket
take(input, ixs) == [j \in 1 .. Len(ixs) |-> input[ixs[j] + 1]]

\* -------------------------------------------------------------- batch encoder
\* Vec<u8>::reserve: amortized doubling
grow_amortized(cap, required) ==
    IF required <= cap THEN cap
    ELSE Max(Max(2 * cap, required), MinNonZeroCap)

\* datafusion::physical_plan::common::batch_byte_size
batch_byte_size(rows) == RowMemSize * Len(rows)

EncodeRow(r) == r.id * KeyRange + r.key
DecodeRow(b) == [key |-> b % KeyRange, id |-> b \div KeyRange]

\* the bytes the zstd encoder leaves in the buffer for one IPC stream
ZstdIpcStream(rows) ==
    << ZstdMagic >> \o [i \in 1 .. Len(rows) |-> EncodeRow(rows[i])]

\* CountedWriter.count: the bytes the IPC writer handed to the encoder
written_length(rows) == IpcStreamLen + IpcRowLen * Len(rows)

EmptyVec == [bytes |-> << >>, cap |-> 0]

\* faulty variant: ipc_length counted from start_pos, the header included
add_batch_length_with_header(frozen, rows) ==
    IF Len(rows) = 0 THEN [frozen |-> frozen, increase |-> 0]
    ELSE
        LET start_pos == Len(frozen.bytes)
            payload == ZstdIpcStream(rows)
            cap1 == grow_amortized(frozen.cap, start_pos + HeaderLen)
            cap2 == grow_amortized(cap1, start_pos + HeaderLen + Len(payload))
            output_len == start_pos + HeaderLen + Len(payload)
            ipc_length == output_len - start_pos
            header == to_le_bytes(ipc_length, LenField)
                        \o to_le_bytes(written_length(rows), LenField)
        IN  [frozen |-> [bytes |-> frozen.bytes \o header \o payload,
                         cap |-> cap2],
             increase |-> cap2 - frozen.cap]

\* faulty variant: no early return for a batch of no rows, which is framed
\* like any other
add_batch_framing_empty(frozen, rows) ==
    LET start_pos == Len(frozen.bytes)
        payload == ZstdIpcStream(rows)
        cap1 == grow_amortized(frozen.cap, start_pos + HeaderLen)
        cap2 == grow_amortized(cap1, start_pos + HeaderLen + Len(payload))
        output_len == start_pos + HeaderLen + Len(payload)
        ipc_length == output_len - start_pos - HeaderLen
        header == to_le_bytes(ipc_length, LenField)
                    \o to_le_bytes(written_length(rows), LenField)
    IN  [frozen |-> [bytes |-> frozen.bytes \o header \o payload,
                     cap |-> cap2],
         increase |-> cap2 - frozen.cap]

\* PartitionBuffer::add_batch on self.frozen: the buffer afterwards and the
\* increase of its capacity
add_batch(frozen, rows) ==
    IF Len(rows) = 0 THEN [frozen |-> frozen, increase |-> 0]
    ELSE
        LET start_pos == Len(frozen.bytes)
            payload == ZstdIpcStream(rows)
            cap1 == grow_amortized(frozen.cap, start_pos + HeaderLen)
            cap2 == grow_amortized(cap1, start_pos + HeaderLen + Len(payload))
            output_len == start_pos + HeaderLen + Len(payload)
            ipc_length == output_len - start_pos - HeaderLen
            header == to_le_bytes(ipc_length, LenField)
                        \o to_le_bytes(written_length(rows), LenField)
        IN  [frozen |-> [bytes |-> frozen.bytes \o header \o payload,
                         cap |-> cap2],
             increase |-> cap2 - frozen.cap]

NoBuffer == [frozen |-> EmptyVec, some |-> FALSE, rows |-> << >>]

\* faulty variant: the builder is reset and its batch dropped, not frozen
finish_dropping_batch(buf) ==
    IF buf.some THEN [buf EXCEPT !.rows = << >>] ELSE buf

\* PartitionBuffer::finish
finish(buf) ==
    IF buf.some
    THEN [frozen |-> add_batch(buf.frozen, buf.rows).frozen,
          some |-> TRUE, rows |-> << >>]
    ELSE buf

\* MutableRecordBatch::is_full
is_full(rows, bsize) == Len(rows) >= bsize

\* faulty variant: the full builder is frozen but keeps its rows
PushRows_without_reset(buf, rows, bsize) ==
    IF Len(rows) > bsize
    THEN LET r == add_batch(buf.frozen, rows)
         IN  [buf |-> [buf EXCEPT !.frozen = r.frozen],
              froze |-> TRUE, size |-> batch_byte_size(rows),
              increase |-> r.increase]
    ELSE LET appended == buf.rows \o rows
         IN  IF is_full(appended, bsize)
             THEN LET r == add_batch(buf.frozen, appended)
                  IN  [buf |-> [frozen |-> r.frozen, some |-> TRUE,
                                rows |-> appended],
                       froze |-> TRUE, size |-> batch_byte_size(appended),
                       increase |-> r.increase]
             ELSE [buf |-> [buf EXCEPT !.some = TRUE, !.rows = appended],
                   froze |-> FALSE, size |-> 0, increase |-> 0]

\* insert_batch, one bucket: the buffer afterwards, whether a batch was frozen,
\* its batch_byte_size and the capacity increase add_batch returned
PushRows(buf, rows, bsize) ==
    IF Len(rows) > bsize
    THEN LET r == add_batch(buf.frozen, rows)
         IN  [buf |-> [buf EXCEPT !.frozen = r.frozen],
              froze |-> TRUE, size |-> batch_byte_size(rows),
              increase |-> r.increase]
    ELSE LET appended == buf.rows \o rows
         IN  IF is_full(appended, bsize)
             THEN LET r == add_batch(buf.frozen, appended)
                  IN  [buf |-> [frozen |-> r.frozen, some |-> TRUE,
                                rows |-> << >>],
                       froze |-> TRUE, size |-> batch_byte_size(appended),
                       increase |-> r.increase]
             ELSE [buf |-> [buf EXCEPT !.some = TRUE, !.rows = appended],
                   froze |-> FALSE, size |-> 0, increase |-> 0]

\* self.mem_used().min(batch_mem_size - increase_mem_used), in usize
to_shrink(mem, size, increase) == Min(mem, (size - increase) % UsizeModulus)

\* the subtraction above leaves usize
Underflows(out) == out.froze /\ out.size < out.increase

\* faulty variant: the gauge is read, the new value not stored
set_not_stored(old, value) == [value |-> old, returned |-> old]

\* Gauge::set of metrics.mem_used(): stores the value, returns the old one
set(old, value) == [value |-> value, returned |-> old]

\* faulty variant: the amount is not taken off the writer's account
shrink_not_accounted(account, n) == account

\* MemoryConsumer::shrink, on the bytes the arbiter accounts to the writer
shrink(account, n) == account - n

\* ---------------------------------------------------------------- the reader
\* The shuffle reader's walk over data_file[offsets[i]..offsets[i+1]].
compressed_len(bs) == from_le_bytes(SubSeq(bs, 1, LenField))
uncompressed_len(bs) == from_le_bytes(SubSeq(bs, LenField + 1, HeaderLen))

RECURSIVE WellFramed(_)
WellFramed(bs) ==
    \/ bs = << >>
    \/ /\ Len(bs) >= HeaderLen
       /\ LET n == compressed_len(bs)
          IN  /\ Len(bs) >= HeaderLen + n
              /\ WellFramed(SubSeq(bs, HeaderLen + n + 1, Len(bs)))

\* the payloads of the frames of a well-framed byte range
RECURSIVE Frames(_)
Frames(bs) ==
    IF Len(bs) < HeaderLen THEN << >>
    ELSE LET n == compressed_len(bs)
         IN  IF Len(bs) < HeaderLen + n THEN << >>
             ELSE << SubSeq(bs, HeaderLen + 1, HeaderLen + n) >>
                    \o Frames(SubSeq(bs, HeaderLen + n + 1, Len(bs)))

FrameRows(payload) ==
    [i \in 1 .. (Len(payload) - 1) |-> DecodeRow(payload[i + 1])]

RECURSIVE Flatten(_)
Flatten(ss) == IF ss = << >> THEN << >> ELSE Head(ss) \o Flatten(Tail(ss))

RowsOf(bs) ==
    LET frames == Frames(bs)
    IN  Flatten([i \in 1 .. Len(frames) |-> FrameRows(frames[i])])

\* ------------------------------------------------- spark_check_overflow
\* An i128 is kept as its sign and the decimal digits of its magnitude, most
\* significant first and without leading zeros (0 is the empty sequence), so
\* that all 128 bits are there.
MaxSparkPrecision == 38

Zeros(n) == [i \in 1 .. n |-> 0]

RECURSIVE Norm(_)
Norm(ds) == IF ds # << >> /\ Head(ds) = 0 THEN Norm(Tail(ds)) ELSE ds

\* a < b for magnitudes
RECURSIVE LexLess(_, _)
LexLess(a, b) ==
    IF a = << >> THEN FALSE
    ELSE IF Head(a) # Head(b) THEN Head(a) < Head(b)
    ELSE LexLess(Tail(a), Tail(b))

Less(a, b) == Len(a) < Len(b) \/ (Len(a) = Len(b) /\ LexLess(a, b))

\* a + b for magnitudes: column by column from the right, with the carry
RECURSIVE AddColumns(_, _, _)
AddColumns(a, b, carry) ==
    IF a = << >> /\ b = << >>
    THEN (IF carry = 0 THEN << >> ELSE << carry >>)
    ELSE LET x == IF a = << >> THEN 0 ELSE a[Len(a)]
             y == IF b = << >> THEN 0 ELSE b[Len(b)]
             s == x + y + carry
             ra == IF a = << >> THEN << >> ELSE SubSeq(a, 1, Len(a) - 1)
             rb == IF b = << >> THEN << >> ELSE SubSeq(b, 1, Len(b) - 1)
         IN  Append(AddColumns(ra, rb, s \div 10), s % 10)

Add(a, b) == Norm(AddColumns(a, b, 0))

\* i128::pow(10, n), for n up to 38
Pow10(n) == << 1 >> \o Zeros(n)

TimesPow10(a, n) == IF a = << >> THEN << >> ELSE a \o Zeros(n)
DivPow10(a, n) == IF Len(a) <= n THEN << >> ELSE SubSeq(a, 1, Len(a) - n)
ModPow10(a, n) ==
    IF Len(a) <= n THEN a ELSE Norm(SubSeq(a, Len(a) - n + 1, Len(a)))

\* i128::MAX = 2^127 - 1; the magnitude of i128::MIN is one more
I128Max ==
    << 1,7,0,1,4,1,1,8,3,4,6,0,4,6,9,2,3,1,7,3,1,6,8,7,3,0,3,7,1,5,8,8,4,1,0,5,
       7,2,7 >>
I128MinMagnitude == Add(I128Max, << 1 >>)

Int128(neg, mag) == [neg |-> neg /\ mag # << >>, mag |-> mag]

\* the value is one an i128 holds
FitsI128(v) ==
    IF v.neg THEN ~Less(I128MinMagnitude, v.mag) ELSE ~Less(I128Max, v.mag)

Some(v) == [status |-> "Some", value |-> v]
None == [status |-> "None", value |-> Int128(FALSE, << >>)]
\* an arithmetic operation left i128: a panic in a build with overflow
\* checks, a wrapped value in one without
Overflow == [status |-> "overflow", value |-> Int128(FALSE, << >>)]

\* faulty variant: the dropped digits are cut off, the value never rounded
change_precision_truncating(i128_val, precision, scale, to_precision, to_scale) ==
    IF to_precision = precision /\ to_scale = scale THEN Some(i128_val)
    ELSE
        LET rescaled ==
                IF to_scale < scale
                THEN Some(Int128(i128_val.neg,
                                 DivPow10(i128_val.mag, scale - to_scale)))
                ELSE IF to_scale > scale
                THEN LET product == Int128(i128_val.neg,
                            TimesPow10(i128_val.mag, to_scale - scale))
                     IN  IF FitsI128(product) THEN Some(product) ELSE Overflow
                ELSE Some(i128_val)
            p == Pow10(Min(to_precision, MaxSparkPrecision))
        IN  IF rescaled.status = "overflow" THEN Overflow
            ELSE IF ~Less(rescaled.value.mag, p) THEN None
            ELSE rescaled

\* change_precision_round_half_up
change_precision_round_half_up(i128_val, precision, scale, to_precision, to_scale) ==
    IF to_precision = precision /\ to_scale = scale THEN Some(i128_val)
    ELSE
        LET rescaled ==
                IF to_scale < scale
                THEN LET diff == scale - to_scale
                         pow10diff == Pow10(diff)
                         dropped_digits == ModPow10(i128_val.mag, diff)
                         quotient == DivPow10(i128_val.mag, diff)
                         doubled == Add(dropped_digits, dropped_digits)
                     IN  IF Less(I128Max, doubled) THEN Overflow
                         ELSE IF ~Less(doubled, pow10diff)
                         THEN Some([neg |-> i128_val.neg,
                                    mag |-> Add(quotient, << 1 >>)])
                         ELSE Some(Int128(i128_val.neg, quotient))
                ELSE IF to_scale > scale
                THEN LET product == Int128(i128_val.neg,
                            TimesPow10(i128_val.mag, to_scale - scale))
                     IN  IF FitsI128(product) THEN Some(product) ELSE Overflow
                ELSE Some(i128_val)
            p == Pow10(Min(to_precision, MaxSparkPrecision))
        IN  IF rescaled.status = "overflow" THEN Overflow
            ELSE IF ~Less(rescaled.value.mag, p) THEN None
            ELSE rescaled

\* -------------------------------------------------------------------- state
VARIABLES
    partitioning,          \* the Partitioning handed to try_new
    num_output_partitions, \* P, partitioning.partition_count()
    batch_size,            \* session_config().batch_size
    pcW,                   \* the writer task: "next", "grow", "bucket",
                           \*   "merge", "done", "error", "panic"
    finalized,             \* shuffle_write has returned Ok
    input,                 \* the batch of the insert_batch call in progress
    cursor,                \* the bucket insert_batch handles next
    nextId,                \* ingest number of the next input row
    buffered_partitions,   \* Mutex<Vec<PartitionBuffer>>: the vector
    lock,                  \* holder of that mutex: "free", "writer", "spill"
    spills,                \* Mutex<Vec<SpillInfo>>: the vector
    mem_used,              \* metrics.mem_used()
    output_rows,           \* metrics.output_rows()
    spilled_bytes,         \* metrics.spilled_bytes()
    spill_count,           \* metrics.spill_count()
    arbiter,               \* bytes the memory manager accounts to the writer
    pcS,                   \* the arbiter's spill() call: "idle", "worker"
    nSpills,               \* spill() calls so far
    output_batches,        \* the frozen bytes a blocking worker owns
    output_spills,         \* the SpillInfos the merge worker owns
    spillResult,           \* what the last spill() returned
    insertResult,          \* what the last insert_batch returned
    data_file,             \* the output data file
    index_file,            \* the output index file
    history,               \* bookkeeping of the run, read by the properties
    tmp_files,             \* temp files in the disk manager's directory
    decimal                \* a call of change_precision_round_half_up

vars == << partitioning, num_output_partitions, batch_size, pcW, finalized, input, cursor,
           nextId, buffered_partitions, lock, spills, mem_used,
           output_rows, spilled_bytes, spill_count, arbiter, pcS, nSpills,
           output_batches, output_spills, spillResult, insertResult,
           data_file, index_file, history, tmp_files, decimal >>

Partitions == 0 .. (num_output_partitions - 1)
\* the longest input batch: one row more than the fast path needs
MaxRows == BatchSize + 1
Absent == [exists |-> FALSE, bytes |-> << >>]
\* Result<usize> of a spill() call, or none yet, or the call still running
NoResult == [status |-> "none", freed |-> 0]
Running == [status |-> "running", freed |-> 0]
Ok(n) == [status |-> "Ok", freed |-> n]
Err == [status |-> "Err", freed |-> 0]
File(bs) == [exists |-> TRUE, bytes |-> bs]

\* no call of change_precision_round_half_up is looked at
NoCall == [called |-> FALSE]

\* ShuffleRepartitioner::new, and external_shuffle up to its loop
\* Partitioning::Hash(exprs, n) with the number of its expressions, and
\* Partitioning::RoundRobinBatch(n)
Hash(exprs, n) == [kind |-> "Hash", exprs |-> exprs, count |-> n]
RoundRobinBatch(n) == [kind |-> "RoundRobinBatch", exprs |-> 0, count |-> n]
Partitionings ==
    {Hash(1, NumPartitions), Hash(0, NumPartitions),
     RoundRobinBatch(NumPartitions)}
partition_count(part) == part.count

\* ShuffleWriterExec::try_new: Ok for every Partitioning
try_new(part) == "Ok"

InitWriter(part) ==
    /\ partitioning = part
    /\ num_output_partitions = partition_count(part)
    /\ batch_size = BatchSize
    /\ pcW = "next"
    /\ finalized = FALSE
    /\ input = << >>
    /\ cursor = 0
    /\ nextId = 1
    /\ buffered_partitions = [p \in Partitions |-> NoBuffer]
    /\ lock = "free"
    /\ spills = << >>
    /\ mem_used = 0
    /\ output_rows = 0
    /\ spilled_bytes = 0
    /\ spill_count = 0
    /\ arbiter = 0
    /\ pcS = "idle"
    /\ nSpills = 0
    /\ output_batches = << >>
    /\ output_spills = << >>
    /\ spillResult = NoResult
    /\ insertResult = "none"
    /\ data_file = Absent
    /\ index_file = Absent
    /\ history = [ingested |-> << >>,
                  reference |-> [p \in Partitions |-> NoBuffer],
                  midSpill |-> FALSE,
                  carried |-> FALSE,
                  lateSpill |-> FALSE,
                  lateInsert |-> FALSE,
                  spilled |-> << >>,
                  memory |-> << >>,
                  released |-> 0,
                  atCall |-> [mem_used |-> 0, something |-> FALSE],
                  over |-> "running"]
    /\ tmp_files = 0

InitWith(part) == InitWriter(part) /\ decimal = NoCall

\* the operator is built over hash partitioning of one expression
Init == InitWith(Hash(1, NumPartitions))

\* the operator is built over any Partitioning: try_new takes them all
InitAny == \E part \in Partitionings : InitWith(part)

\* ------------------------------------------------------------ insert_batch
\* the rows of an input batch whose partitioning column holds ks
BatchOf(ks) == [i \in 1 .. Len(ks) |-> [key |-> ks[i], id |-> nextId + i - 1]]

\* the first bucket from `from` on that holds a row of the batch, or P
RECURSIVE NextBucket(_, _)
NextBucket(rows, from) ==
    IF from >= num_output_partitions THEN num_output_partitions
    ELSE IF Len(indices(rows, num_output_partitions)[from]) > 0 THEN from
    ELSE NextBucket(rows, from + 1)

\* faulty variant: a batch of no rows is not skipped
insert_batch_enter_without_skip(ks) ==
    /\ nextId - 1 + Len(ks) <= MaxTotalRows
    /\ history' = [history EXCEPT !.lateInsert = finalized,
                                  !.midSpill = @ \/ pcS = "worker",
                                  !.ingested = @ \o BatchOf(ks)]
    /\ insertResult' = "running"
    /\ pcW' = "grow"
    /\ input' = BatchOf(ks)
    /\ nextId' = nextId + Len(ks)
    /\ output_rows' = output_rows + Len(ks)
    /\ UNCHANGED << decimal, tmp_files, partitioning, num_output_partitions,
                    batch_size, finalized, cursor, buffered_partitions, lock,
                    spills, mem_used, spilled_bytes, spill_count, arbiter, pcS,
                    nSpills, output_batches, output_spills, spillResult,
                    data_file, index_file >>

\* insert_batch up to the request to the arbiter
insert_batch_enter(ks) ==
    /\ nextId - 1 + Len(ks) <= MaxTotalRows
    /\ history' = [history EXCEPT !.lateInsert = finalized,
                                  !.midSpill = @ \/ pcS = "worker",
                                  !.ingested = @ \o BatchOf(ks)]
    /\ IF Len(ks) = 0
       THEN /\ insertResult' = "Ok"
            /\ UNCHANGED << pcW, input, nextId, output_rows >>
       ELSE /\ insertResult' = "running"
            /\ pcW' = "grow"
            /\ input' = BatchOf(ks)
            /\ nextId' = nextId + Len(ks)
            /\ output_rows' = output_rows + Len(ks)
    /\ UNCHANGED << decimal, tmp_files, partitioning, num_output_partitions, batch_size, finalized, cursor,
                    buffered_partitions, lock, spills, mem_used, spilled_bytes,
                    spill_count, arbiter, pcS, nSpills, output_batches,
                    output_spills, spillResult, data_file, index_file >>

\* external_shuffle: the input stream yields a batch
InsertBatch ==
    /\ pcW = "next"
    /\ \E n \in 0 .. MaxRows : \E ks \in [1 .. n -> Keys] : insert_batch_enter(ks)

\* match &self.partitioning: the arm Partitioning::Hash(exprs, _), with
\* arrays[0] there
Hashed == partitioning.kind = "Hash" /\ partitioning.exprs > 0

\* self.try_grow(batch_mem_size) is granted; mem_used().add(batch_mem_size)
TryGrow ==
    /\ pcW = "grow"
    /\ arbiter' = arbiter + batch_byte_size(input)
    /\ mem_used' = mem_used + batch_byte_size(input)
    /\ cursor' = IF Hashed THEN NextBucket(input, 0) ELSE cursor
    /\ pcW' = "bucket"
    /\ UNCHANGED << decimal, tmp_files, partitioning, num_output_partitions, batch_size, finalized, input,
                    nextId, buffered_partitions, lock, spills,
                    output_rows, spilled_bytes, spill_count, pcS, nSpills,
                    output_batches, output_spills, spillResult, insertResult,
                    data_file, index_file, history >>

\* self.try_grow(batch_mem_size) returns an error
TryGrowDenied ==
    /\ pcW = "grow"
    /\ pcW' = "error"
    /\ insertResult' = "Err"
    /\ input' = << >>
    /\ UNCHANGED << decimal, tmp_files, partitioning, num_output_partitions, batch_size, finalized, cursor,
                    nextId, buffered_partitions, lock, spills,
                    mem_used, output_rows, spilled_bytes, spill_count, arbiter,
                    pcS, nSpills, output_batches, output_spills, spillResult,
                    data_file, index_file, history >>

\* what one turn of the bucket loop does to its PartitionBuffer
BucketOutcome(bufs) ==
    PushRows(bufs[cursor],
             take(input, indices(input, num_output_partitions)[cursor]),
             batch_size)

\* one turn of the bucket loop of insert_batch, under the buffers mutex
BucketStep ==
    /\ pcW = "bucket"
    /\ Hashed
    /\ lock = "free"
    /\ LET out == BucketOutcome(buffered_partitions)
           shrunk == IF out.froze
                     THEN to_shrink(mem_used, out.size, out.increase)
                     ELSE 0
           nxt == NextBucket(input, cursor + 1)
       IN  /\ buffered_partitions' =
                  [buffered_partitions EXCEPT ![cursor] = out.buf]
           /\ mem_used' = mem_used - shrunk
           /\ arbiter' = shrink(arbiter, shrunk)
           /\ history' = [history EXCEPT
                  !.reference[cursor] = BucketOutcome(history.reference).buf]
           /\ IF nxt < num_output_partitions
              THEN /\ cursor' = nxt
                   /\ UNCHANGED << pcW, input, insertResult >>
              ELSE /\ cursor' = 0
                   /\ input' = << >>
                   /\ insertResult' = "Ok"
                   /\ pcW' = IF finalized THEN "done" ELSE "next"
    /\ UNCHANGED << decimal, tmp_files, partitioning, num_output_partitions, batch_size, finalized, nextId, lock, spills, output_rows, spilled_bytes,
                    spill_count, pcS, nSpills, output_batches, output_spills,
                    spillResult, data_file, index_file >>

\* the same turn in a build with overflow checks: the subtraction panics,
\* after add_batch and with the active builder taken out of its buffer
BucketPanic ==
    /\ pcW = "bucket"
    /\ Hashed
    /\ lock = "free"
    /\ Underflows(BucketOutcome(buffered_partitions))
    /\ LET out == BucketOutcome(buffered_partitions)
           fast == Len(take(input, indices(input, num_output_partitions)[cursor]))
                     > batch_size
       IN  buffered_partitions' =
               [buffered_partitions EXCEPT ![cursor] =
                   IF fast THEN out.buf
                   ELSE [out.buf EXCEPT !.some = FALSE]]
    /\ pcW' = "panic"
    /\ insertResult' = "panic"
    /\ UNCHANGED << decimal, tmp_files, partitioning, num_output_partitions, batch_size, finalized, input,
                    cursor, nextId, lock, spills, mem_used,
                    output_rows, spilled_bytes, spill_count, arbiter, pcS,
                    nSpills, output_batches, output_spills, spillResult,
                    data_file, index_file, history >>

\* ------------------------------------------------------- files of a worker
\* the bytes of output_batches[0..j) one after the other
BytesBefore(batches, j) == Flatten([k \in 1 .. j |-> batches[k - 1]])

\* faulty variant: the extra offset after the last partition never set
SpillOffsets_without_last(batches, n) ==
    [j \in 1 .. (n + 1) |->
        IF j = n + 1 THEN 0 ELSE Len(BytesBefore(batches, j - 1))]

\* spill_into, the blocking worker: offsets[i] = spill_data.stream_position()
SpillOffsets(batches, n) == [j \in 1 .. (n + 1) |-> Len(BytesBefore(batches, j - 1))]

\* spill_into, the blocking worker: what it writes to the temp file
SpillFile(batches, n) == BytesBefore(batches, n)

\* faulty variant: the copy runs to the end of the spill file, take(length)
\* forgotten
SpillPart_to_end(spill, i) ==
    LET length == spill.offsets[i + 2] - spill.offsets[i + 1]
    IN  IF length > 0
        THEN SubSeq(spill.file, spill.offsets[i + 1] + 1, Len(spill.file))
        ELSE << >>

\* faulty variant: the copy starts at the head of the spill file, the seek forgotten
SpillPart_without_seek(spill, i) ==
    LET length == spill.offsets[i + 2] - spill.offsets[i + 1]
    IN  IF length > 0 THEN SubSeq(spill.file, 1, length) ELSE << >>

\* shuffle_write, the blocking worker: the bytes copied from one spill for
\* partition i (seek to spill.offsets[i], take(length))
SpillPart(spill, i) ==
    LET start == spill.offsets[i + 1]
        length == spill.offsets[i + 2] - spill.offsets[i + 1]
    IN  IF length > 0 THEN SubSeq(spill.file, start + 1, start + length)
        ELSE << >>

\* faulty variant: the spills copied ahead of the in-memory bytes
PartitionBytes_spills_first(batches, spls, i) ==
    Flatten([k \in 1 .. Len(spls) |-> SpillPart(spls[k], i)]) \o batches[i]

\* shuffle_write, the blocking worker: everything written for partition i
PartitionBytes(batches, spls, i) ==
    batches[i] \o Flatten([k \in 1 .. Len(spls) |-> SpillPart(spls[k], i)])

\* shuffle_write, the blocking worker: the data file after j partitions
MergedData(batches, spls, j) ==
    Flatten([k \in 1 .. j |-> PartitionBytes(batches, spls, k - 1)])

\* faulty variant: the extra offset after the last partition never set
MergedOffsets_without_last(batches, spls, n) ==
    [j \in 1 .. (n + 1) |->
        IF j = n + 1 THEN 0 ELSE Len(MergedData(batches, spls, j - 1))]

\* shuffle_write, the blocking worker: offsets[i] = stream_position() before
\* partition i, offsets[n] after the last one
MergedOffsets(batches, spls, n) ==
    [j \in 1 .. (n + 1) |-> Len(MergedData(batches, spls, j - 1))]

\* faulty variant: the offsets written as 4-byte integers
IndexBytes_narrow(offsets) ==
    Flatten([j \in 1 .. Len(offsets) |-> to_le_bytes(offsets[j], 4)])

\* shuffle_write, the blocking worker: the index file
IndexBytes(offsets) ==
    Flatten([j \in 1 .. Len(offsets) |-> to_le_bytes(offsets[j], LenField)])

\* faulty variant: the frozen bytes taken, the active builders not finished
LeftBehind_unfinished(bufs) ==
    [p \in DOMAIN bufs |-> [bufs[p] EXCEPT !.frozen = EmptyVec]]

\* faulty variant: the frozen bytes copied, not taken
LeftBehind_keeping_frozen(bufs) == [p \in DOMAIN bufs |-> finish(bufs[p])]

\* spill_into and shuffle_write: finish every buffer ...
Finished(bufs) == [p \in DOMAIN bufs |-> finish(bufs[p])]
\* ... and std::mem::take its frozen bytes
TakenBytes(bufs) == [p \in DOMAIN bufs |-> Finished(bufs)[p].frozen.bytes]
LeftBehind(bufs) ==
    [p \in DOMAIN bufs |-> [Finished(bufs)[p] EXCEPT !.frozen = EmptyVec]]

\* ------------------------------------------------------------ shuffle_write
\* faulty variant: the buffers are taken without the buffers mutex held on
ShuffleWriteEnter_without_lock ==
    /\ pcW = "next"
    /\ lock = "free"
    /\ pcW' = "merge"
    /\ output_batches' = TakenBytes(buffered_partitions)
    /\ buffered_partitions' = LeftBehind(buffered_partitions)
    /\ output_spills' = spills
    /\ spills' = << >>
    /\ UNCHANGED << decimal, tmp_files, partitioning, num_output_partitions,
                    batch_size, finalized, input, cursor, nextId, lock,
                    mem_used, output_rows, spilled_bytes, spill_count, arbiter,
                    pcS, nSpills, spillResult, insertResult, data_file,
                    index_file, history >>

\* shuffle_write up to the await of its blocking worker; the guards of both
\* mutexes live until the function returns
ShuffleWriteEnter ==
    /\ pcW = "next"
    /\ lock = "free"
    /\ lock' = "writer"
    /\ pcW' = "merge"
    /\ output_batches' = TakenBytes(buffered_partitions)
    /\ buffered_partitions' = LeftBehind(buffered_partitions)
    /\ output_spills' = spills
    /\ spills' = << >>
    /\ UNCHANGED << decimal, tmp_files, partitioning, num_output_partitions, batch_size, finalized, input,
                    cursor, nextId, mem_used, output_rows,
                    spilled_bytes, spill_count, arbiter, pcS, nSpills,
                    spillResult, insertResult, data_file, index_file, history >>

\* faulty variant: the gauge reset, the arbiter not told
ReleaseAll_without_shrink ==
    [mem_used |-> set(mem_used, 0).value, arbiter |-> arbiter]

\* faulty variant: the gauge read with value(), not reset
ReleaseAll_gauge_kept ==
    [mem_used |-> mem_used, arbiter |-> shrink(arbiter, mem_used)]

\* let used = self.metrics.mem_used().set(0); self.shrink(used)
ReleaseAll ==
    [mem_used |-> set(mem_used, 0).value,
     arbiter |-> shrink(arbiter, set(mem_used, 0).returned)]

\* the worker wrote both files, and shuffle_write returns
ShuffleWriteJoin ==
    /\ pcW = "merge"
    /\ data_file' = File(MergedData(output_batches, output_spills,
                                    num_output_partitions))
    /\ index_file' = File(IndexBytes(MergedOffsets(output_batches, output_spills,
                                                   num_output_partitions)))
    /\ mem_used' = ReleaseAll.mem_used
    /\ arbiter' = ReleaseAll.arbiter
    /\ history' = [history EXCEPT !.memory = output_batches,
                                  !.released = mem_used]
    /\ output_batches' = << >>
    /\ output_spills' = << >>
    /\ lock' = "free"
    /\ pcW' = "done"
    /\ finalized' = TRUE
    /\ tmp_files' = tmp_files - Len(output_spills)
    /\ UNCHANGED << decimal, partitioning, num_output_partitions, batch_size, input, cursor, nextId, buffered_partitions, spills, output_rows,
                    spilled_bytes, spill_count, pcS, nSpills, spillResult,
                    insertResult >>

\* the worker failed: opening the data file, or creating the index file after
\* the data file was written
ShuffleWriteFail ==
    /\ pcW = "merge"
    /\ \E at \in {"data", "index"} :
          data_file' = IF at = "index"
                       THEN File(MergedData(output_batches, output_spills,
                                            num_output_partitions))
                       ELSE data_file
    /\ output_batches' = << >>
    /\ output_spills' = << >>
    /\ tmp_files' = tmp_files - Len(output_spills)
    /\ lock' = "free"
    /\ pcW' = "error"
    /\ UNCHANGED << decimal, partitioning, num_output_partitions, batch_size, finalized, input,
                    cursor, nextId, buffered_partitions, spills,
                    mem_used, output_rows, spilled_bytes, spill_count, arbiter,
                    pcS, nSpills, spillResult, insertResult, index_file,
                    history >>

\* -------------------------------------------------------------------- spill
\* the repartitioner is alive: its task neither failed nor panicked
Alive == pcW \notin {"error", "panic", "dropped"}

\* spill up to the await of the blocking worker of spill_into
SpillEnter ==
    /\ Alive
    /\ pcS = "idle"
    /\ nSpills < MaxSpills
    /\ lock = "free"
    /\ nSpills' = nSpills + 1
    /\ history' = [history EXCEPT
           !.midSpill = @ \/ pcW \in {"grow", "bucket"},
           !.carried = @ \/ \E p \in Partitions :
                                TakenBytes(buffered_partitions)[p] # << >>,
           !.lateSpill = finalized,
           !.atCall = [mem_used |-> mem_used,
                       something |-> \E p \in Partitions :
                           TakenBytes(buffered_partitions)[p] # << >>]]
    /\ IF Cardinality(DOMAIN buffered_partitions) = 0
       THEN /\ spillResult' = Ok(0)
            /\ UNCHANGED << lock, pcS, output_batches, buffered_partitions,
                            tmp_files >>
       ELSE /\ lock' = "spill"
            /\ pcS' = "worker"
            /\ spillResult' = Running
            /\ tmp_files' = tmp_files + 1
            /\ output_batches' = TakenBytes(buffered_partitions)
            /\ buffered_partitions' = LeftBehind(buffered_partitions)
    /\ UNCHANGED << decimal, partitioning, num_output_partitions, batch_size, pcW, finalized, input,
                    cursor, nextId, spills, mem_used, output_rows,
                    spilled_bytes, spill_count, arbiter, output_spills,
                    insertResult, data_file, index_file >>

\* faulty variant: spill returns with the guard of the buffers mutex leaked
SpillJoin_keeping_lock ==
    /\ pcS = "worker"
    /\ spills' = Append(spills,
                        [file |-> SpillFile(output_batches, num_output_partitions),
                         offsets |-> SpillOffsets(output_batches,
                                                  num_output_partitions)])
    /\ spillResult' = Ok(set(mem_used, 0).returned)
    /\ mem_used' = set(mem_used, 0).value
    /\ spilled_bytes' = spilled_bytes + set(mem_used, 0).returned
    /\ spill_count' = spill_count + 1
    /\ arbiter' = arbiter - set(mem_used, 0).returned
    /\ history' = [history EXCEPT !.spilled = Append(@, output_batches)]
    /\ output_batches' = << >>
    /\ pcS' = "idle"
    /\ UNCHANGED << decimal, tmp_files, partitioning, num_output_partitions,
                    batch_size, pcW, finalized, input, cursor, nextId,
                    buffered_partitions, lock, output_rows, nSpills,
                    output_spills, insertResult, data_file, index_file >>

\* the worker wrote the temp file: freed = mem_used().set(0); record_spill;
\* spills.push; the arbiter takes the freed bytes off the writer's account
SpillJoin ==
    /\ pcS = "worker"
    /\ spills' = Append(spills,
                        [file |-> SpillFile(output_batches, num_output_partitions),
                         offsets |-> SpillOffsets(output_batches,
                                                  num_output_partitions)])
    /\ spillResult' = Ok(set(mem_used, 0).returned)
    /\ mem_used' = set(mem_used, 0).value
    /\ spilled_bytes' = spilled_bytes + set(mem_used, 0).returned
    /\ spill_count' = spill_count + 1
    /\ arbiter' = arbiter - set(mem_used, 0).returned
    /\ history' = [history EXCEPT !.spilled = Append(@, output_batches)]
    /\ output_batches' = << >>
    /\ lock' = "free"
    /\ pcS' = "idle"
    /\ UNCHANGED << decimal, tmp_files, partitioning, num_output_partitions, batch_size, pcW, finalized, input,
                    cursor, nextId, buffered_partitions, output_rows,
                    nSpills, output_spills, insertResult, data_file,
                    index_file >>

\* an I/O error inside spill is fatal for the operator
Fatal == IF pcW = "done" THEN "done" ELSE "error"

\* the worker of spill_into failed: the bytes it owned are gone, and spillfile
\* is dropped with the call
SpillFail ==
    /\ pcS = "worker"
    /\ spillResult' = Err
    /\ output_batches' = << >>
    /\ lock' = "free"
    /\ pcS' = "idle"
    /\ pcW' = Fatal
    /\ tmp_files' = tmp_files - 1
    /\ UNCHANGED << decimal, partitioning, num_output_partitions, batch_size, finalized, input,
                    cursor, nextId, buffered_partitions, spills,
                    mem_used, output_rows, spilled_bytes, spill_count, arbiter,
                    nSpills, output_spills, insertResult, data_file,
                    index_file, history >>

\* disk_manager.create_tmp_file() failed, the buffers untouched
SpillCreateFail ==
    /\ Alive
    /\ pcS = "idle"
    /\ nSpills < MaxSpills
    /\ lock = "free"
    /\ nSpills' = nSpills + 1
    /\ spillResult' = Err
    /\ pcW' = Fatal
    /\ history' = [history EXCEPT !.lateSpill = finalized]
    /\ UNCHANGED << decimal, tmp_files, partitioning, num_output_partitions, batch_size, finalized, input,
                    cursor, nextId, buffered_partitions, lock,
                    spills, mem_used, output_rows, spilled_bytes, spill_count,
                    arbiter, pcS, output_batches, output_spills, insertResult,
                    data_file, index_file >>

\* ----------------------------------------------------------- specifications
Next ==
    \/ InsertBatch
    \/ TryGrow
    \/ TryGrowDenied
    \/ BucketStep
    \/ BucketPanic
    \/ ShuffleWriteEnter
    \/ ShuffleWriteJoin
    \/ ShuffleWriteFail
    \/ SpillEnter
    \/ SpillJoin
    \/ SpillFail
    \/ SpillCreateFail

\* external_shuffle with the arbiter calling spill
Spec == Init /\ [][Next]_vars

\* a caller that goes on calling insert_batch after shuffle_write returned
LateInsertBatch ==
    /\ pcW = "done"
    /\ \E n \in 1 .. MaxRows : \E ks \in [1 .. n -> Keys] : insert_batch_enter(ks)

NextLate == Next \/ LateInsertBatch

\* insert_batch, the arm `other` of match &self.partitioning: the batch has
\* been counted and its memory claimed, the call returns NotImplemented
UnsupportedPartitioning ==
    /\ pcW = "bucket"
    /\ partitioning.kind # "Hash"
    /\ pcW' = "error"
    /\ insertResult' = "Err"
    /\ input' = << >>
    /\ UNCHANGED << decimal, tmp_files, partitioning, num_output_partitions, batch_size, finalized,
                    cursor, nextId, buffered_partitions, lock, spills,
                    mem_used, output_rows, spilled_bytes, spill_count, arbiter,
                    pcS, nSpills, output_batches, output_spills, spillResult,
                    data_file, index_file, history >>

\* insert_batch, the arm Partitioning::Hash(exprs, _) with no expression:
\* arrays is empty and arrays[0] panics
NoExpressionPanic ==
    /\ pcW = "bucket"
    /\ partitioning.kind = "Hash" /\ partitioning.exprs = 0
    /\ pcW' = "panic"
    /\ insertResult' = "panic"
    /\ UNCHANGED << decimal, tmp_files, partitioning, num_output_partitions, batch_size, finalized,
                    input, cursor, nextId, buffered_partitions, lock, spills,
                    mem_used, output_rows, spilled_bytes, spill_count, arbiter,
                    pcS, nSpills, output_batches, output_spills, spillResult,
                    data_file, index_file, history >>

NextAny == Next \/ UnsupportedPartitioning \/ NoExpressionPanic

\* the operator built over any Partitioning and run
SpecAny == InitAny /\ [][NextAny]_vars

SpecLate == Init /\ [][NextLate]_vars

\* a turn of the bucket loop can be taken: what ENABLED of BucketStep is
BucketReady == pcW = "bucket" /\ Hashed /\ lock = "free"

\* external_shuffle driven to its end: the input stream is finite and ends,
\* the memory manager answers every try_grow, the blocking workers finish,
\* and the tokio mutex, which queues its waiters, is handed on.  The
\* condition on the bucket loop is weak fairness of BucketStep \/ BucketPanic
\* written out with BucketReady for its ENABLED.
Fairness ==
    /\ WF_vars(ShuffleWriteEnter)
    /\ WF_vars(TryGrow \/ TryGrowDenied)
    /\ []<>(~BucketReady) \/ []<><<BucketStep \/ BucketPanic>>_vars
    /\ WF_vars(ShuffleWriteFail \/ ShuffleWriteJoin)
    /\ WF_vars(SpillFail \/ SpillJoin)

SpecLive == Init /\ [][Next]_vars /\ Fairness

\* ------------------------------------------- calls of spark_check_overflow
\* the digits the magnitudes of the arguments are written with
MantissaDigits == {0, 1, 4, 5, 9}
\* the magnitudes of up to MaxDigits digits
Mantissas ==
    UNION {{ds \in [1 .. n -> MantissaDigits] : n > 0 => ds[1] # 0} :
              n \in 0 .. MaxDigits}
\* the powers of ten they are multiplied with, to reach the top of the range
Exponents == {0, 36, 37}
Scales == {0, 1, 2, 37, 38}
Precisions == {2, 38}
ToPrecisions == {1, 2, 38, 39}

\* the i128 values of the calls: i128::MAX, i128::MIN and the mantissas,
\* shifted, of both signs
I128Values ==
    {Int128(FALSE, I128Max), Int128(TRUE, I128MinMagnitude)}
      \cup {v \in {Int128(neg, TimesPow10(ds, e)) :
                      neg \in BOOLEAN, ds \in Mantissas, e \in Exponents} :
                FitsI128(v)}

\* a Decimal128 scalar and the arguments precision and scale
InitDecimal ==
    /\ InitWriter(Hash(1, NumPartitions))
    /\ \E v \in I128Values, precision \in Precisions, scale \in Scales,
          to_precision \in ToPrecisions, to_scale \in Scales :
          decimal = [called |-> FALSE,
                     i128_val |-> v,
                     precision |-> precision,
                     scale |-> scale,
                     to_precision |-> to_precision,
                     to_scale |-> to_scale,
                     result |-> None]

\* spark_check_overflow on a scalar: the value goes through
\* change_precision_round_half_up
spark_check_overflow ==
    /\ ~decimal.called
    /\ decimal.to_precision >= 1
    /\ decimal' = [decimal EXCEPT
           !.called = TRUE,
           !.result = change_precision_round_half_up(
                          decimal.i128_val, decimal.precision, decimal.scale,
                          decimal.to_precision, decimal.to_scale)]
    /\ UNCHANGED << partitioning, num_output_partitions, batch_size, pcW,
                    finalized, input, cursor, nextId, buffered_partitions,
                    lock, spills, mem_used, output_rows, spilled_bytes,
                    spill_count, arbiter, pcS, nSpills, output_batches,
                    output_spills, spillResult, insertResult, data_file,
                    index_file, history, tmp_files >>

SpecDecimal == InitDecimal /\ [][spark_check_overflow]_vars

\* ------------------------------------------------ failures and end of the task
\* PartitionBuffer::add_batch left by `?` after the placeholder was written:
\* frozen keeps the 16 zero bytes and the `written` bytes of the compressed
\* stream that had reached it, nothing is truncated
add_batch_interrupted(frozen, rows, written) ==
    LET start_pos == Len(frozen.bytes)
        payload == SubSeq(ZstdIpcStream(rows), 1, written)
        cap1 == grow_amortized(frozen.cap, start_pos + HeaderLen)
        cap2 == grow_amortized(cap1, start_pos + HeaderLen + written)
    IN  [bytes |-> frozen.bytes \o [i \in 1 .. HeaderLen |-> 0] \o payload,
         cap |-> cap2]

\* a turn of the bucket loop whose add_batch fails, before any byte of the
\* stream was written or at the finish of the encoder: insert_batch returns
\* the error, on the builder path with the builder taken out of its buffer
EncodeFail ==
    /\ pcW = "bucket"
    /\ Hashed
    /\ lock = "free"
    /\ BucketOutcome(buffered_partitions).froze
    /\ LET buf == buffered_partitions[cursor]
           rows == take(input, indices(input, num_output_partitions)[cursor])
           fast == Len(rows) > batch_size
           batch == IF fast THEN rows ELSE buf.rows \o rows
       IN  \E written \in {0, Len(ZstdIpcStream(batch))} :
              buffered_partitions' =
                  [buffered_partitions EXCEPT ![cursor] =
                      [frozen |-> add_batch_interrupted(buf.frozen, batch, written),
                       some |-> IF fast THEN buf.some ELSE FALSE,
                       rows |-> IF fast THEN buf.rows ELSE << >>]]
    /\ pcW' = "error"
    /\ insertResult' = "Err"
    /\ input' = << >>
    /\ UNCHANGED << decimal, tmp_files, partitioning, num_output_partitions,
                    batch_size, finalized, cursor, nextId, lock, spills,
                    mem_used, output_rows, spilled_bytes, spill_count, arbiter,
                    pcS, nSpills, output_batches, output_spills, spillResult,
                    data_file, index_file, history >>

\* MemoryManager::drop_consumer for a requesting consumer
drop_consumer(account, used) == account - used

\* external_shuffle is left, by return or by unwinding: the repartitioner, a
\* local of it, is dropped and with it the SpillInfos of spills
Drop ==
    /\ pcW \in {"done", "error", "panic"}
    /\ pcS = "idle"
    /\ pcW' = "dropped"
    /\ arbiter' = drop_consumer(arbiter, mem_used)
    /\ tmp_files' = tmp_files - Len(spills)
    /\ spills' = << >>
    /\ buffered_partitions' = [p \in Partitions |-> NoBuffer]
    /\ input' = << >>
    /\ history' = [history EXCEPT !.over = pcW]
    /\ UNCHANGED << decimal, partitioning, num_output_partitions, batch_size,
                    finalized, cursor, nextId, lock, mem_used, output_rows,
                    spilled_bytes, spill_count, pcS, nSpills, output_batches,
                    output_spills, spillResult, insertResult, data_file,
                    index_file >>

\* the stream of execute is dropped while external_shuffle is suspended: at
\* the input stream, in try_grow (the spill call try_grow makes included), at
\* the buffers mutex or at the join of the merge worker.  A blocking worker
\* runs on detached: the merge worker writes its files and drops
\* output_spills; the worker of spill_into opens its path with create(true),
\* before the dropped call's spillfile is deleted or after it (recreated)
Cancel ==
    /\ pcW \in {"next", "grow", "bucket", "merge"}
    /\ pcS = "worker" => pcW = "grow"
    /\ pcW' = "dropped"
    /\ pcS' = "idle"
    /\ lock' = "free"
    /\ arbiter' = drop_consumer(arbiter, mem_used)
    /\ IF pcS = "worker"
       THEN \E recreated \in BOOLEAN :
               tmp_files' = tmp_files - Len(spills) - 1
                              + (IF recreated THEN 1 ELSE 0)
       ELSE tmp_files' = tmp_files - Len(spills) - Len(output_spills)
    /\ IF pcW = "merge"
       THEN /\ data_file' = File(MergedData(output_batches, output_spills,
                                            num_output_partitions))
            /\ index_file' = File(IndexBytes(MergedOffsets(output_batches,
                                      output_spills, num_output_partitions)))
       ELSE UNCHANGED << data_file, index_file >>
    /\ spills' = << >>
    /\ output_batches' = << >>
    /\ output_spills' = << >>
    /\ buffered_partitions' = [p \in Partitions |-> NoBuffer]
    /\ input' = << >>
    /\ history' = [history EXCEPT !.over = "cancelled"]
    /\ UNCHANGED << decimal, partitioning, num_output_partitions, batch_size,
                    finalized, cursor, nextId, mem_used, output_rows,
                    spilled_bytes, spill_count, nSpills, spillResult,
                    insertResult >>

NextTask == Next \/ EncodeFail \/ Drop \/ Cancel

\* the task of external_shuffle from its start to the drop of the
\* repartitioner, with encode failures and cancellation
SpecTask == Init /\ [][NextTask]_vars

\* --------------------------------------------- reading the files back
\* shuffle_write has returned Ok and nothing was inserted since
Done == pcW = "done"

\* the offsets a reader finds in the index file
IndexOffsets ==
    [j \in 1 .. (Len(index_file.bytes) \div LenField) |->
        from_le_bytes(SubSeq(index_file.bytes,
                             LenField * (j - 1) + 1, LenField * j))]

\* data_file[offsets[i]..offsets[i+1]]
PartitionRange(i) ==
    LET offsets == IndexOffsets
    IN  SubSeq(data_file.bytes, offsets[i + 1] + 1, offsets[i + 2])

\* the rows a reader decodes from all partition ranges
StoredRows == Flatten([j \in 1 .. num_output_partitions |->
                          RowsOf(PartitionRange(j - 1))])

Elements(seq) == {seq[i] : i \in DOMAIN seq}
Count(seq, x) == Cardinality({i \in DOMAIN seq : seq[i] = x})
SameBag(a, b) ==
    /\ Len(a) = Len(b)
    /\ \A x \in Elements(a) \cup Elements(b) : Count(a, x) = Count(b, x)

\* C1: row conservation.  After a successful finalize the rows decoded from
\* the P partition ranges of the data file are, as a multiset, exactly the
\* rows of all input batches, whatever spills were interleaved (between
\* calls, during try_grow or between two buckets of one insert_batch).
C1_RowConservation ==
    Done => /\ data_file.exists /\ index_file.exists
            /\ Len(IndexOffsets) = num_output_partitions + 1
            /\ SameBag(StoredRows, history.ingested)

\* a finalized run of at least three rows in which a spill between two
\* buckets of one insert_batch carried rows away
C1_Witness ==
    /\ Done
    /\ Len(history.ingested) >= 3
    /\ history.midSpill /\ history.carried
    /\ spill_count >= 1

\* the run with no spill: the same batches through the same buckets
ReferenceBatches == TakenBytes(history.reference)
ReferenceData == MergedData(ReferenceBatches, << >>, num_output_partitions)
ReferenceOffsets == MergedOffsets(ReferenceBatches, << >>, num_output_partitions)
ReferenceIndex == IndexBytes(ReferenceOffsets)
ReferenceRange(i) ==
    SubSeq(ReferenceData, ReferenceOffsets[i + 1] + 1, ReferenceOffsets[i + 2])

\* C2 as stated: spill transparency.  With spills injected only between
\* insert_batch calls, the data file and the index file are byte-identical
\* to those of the run with no spill.
C2_SpillTransparency ==
    (Done /\ ~history.midSpill) =>
        /\ data_file.bytes = ReferenceData
        /\ index_file.bytes = ReferenceIndex

\* C2 amended: the run with spills stores in every partition range the same
\* multiset of rows as the run with no spill, in an index of the same P+1
\* offsets; the bytes are identical when no spill carried any row away.
C2_SameRowsPerPartition ==
    Done =>
        LET data == ReferenceData
            offsets == ReferenceOffsets
            index == IndexBytes(offsets)
        IN  /\ Len(index_file.bytes) = Len(index)
            /\ \A p \in Partitions :
                  SameBag(RowsOf(PartitionRange(p)),
                          RowsOf(SubSeq(data, offsets[p + 1] + 1,
                                        offsets[p + 2])))
            /\ ~history.carried =>
                  /\ data_file.bytes = data
                  /\ index_file.bytes = index

\* a finalized run whose spills, all between insert_batch calls, carried
\* rows away, and whose data file differs from that of the run with no spill
C2_Witness ==
    /\ Done
    /\ history.carried /\ ~history.midSpill
    /\ data_file.bytes # ReferenceData

\* C3: index well-formedness.  After a successful finalize the index file
\* holds exactly P+1 offsets of 8 bytes, offsets[0] = 0, the offsets never
\* decrease, and offsets[P] is the byte length of the data file.
C3_IndexWellFormed ==
    Done =>
        /\ Len(index_file.bytes) = (num_output_partitions + 1) * LenField
        /\ Len(IndexOffsets) = num_output_partitions + 1
        /\ IndexOffsets[1] = 0
        /\ \A j \in 1 .. num_output_partitions :
              IndexOffsets[j] <= IndexOffsets[j + 1]
        /\ IndexOffsets[num_output_partitions + 1] = Len(data_file.bytes)

\* a finalized run after a spill that carried rows, with a non-empty data file
C3_Witness ==
    /\ Done
    /\ history.carried /\ spill_count >= 1
    /\ Len(data_file.bytes) > 0
    /\ \E p \in Partitions : history.memory[p] # << >>

\* the bucket of a row, stated without the code's pmod: the one b in [0, P)
\* with hash - b divisible by P
ExpectedBucket(r) == create_hash(r.key, Seed) % num_output_partitions

\* C4: hash placement.  pmod of every row's hash is in [0, P), and after a
\* successful finalize every input row is stored once in the range of
\* partition pmod(h, P) and every row of a range belongs there, whether it
\* went through the active builder, the fast path or a spill.
C4_HashPlacement ==
    /\ LET hs == hashes(input)
       IN  \A i \in DOMAIN input :
               pmod(hs[i], num_output_partitions) \in Partitions
    /\ Done =>
          LET stored == [p \in Partitions |-> RowsOf(PartitionRange(p))]
          IN  /\ \A p \in Partitions :
                    \A r \in Elements(stored[p]) : ExpectedBucket(r) = p
              /\ \A r \in Elements(history.ingested) :
                    Count(stored[ExpectedBucket(r)], r) = 1

\* a finalized run that stored a row of negative hash, filled every
\* partition, and spilled rows
C4_Witness ==
    /\ Done
    /\ history.carried
    /\ \E r \in Elements(StoredRows) : create_hash(r.key, Seed) < 0
    /\ \A p \in Partitions : PartitionRange(p) # << >>

\* what partition p contributed to the data file: its in-memory frozen bytes
\* at finalize, then its bytes of every spill in the order of the spills
Segments(p) ==
    << history.memory[p] >>
        \o [k \in 1 .. Len(history.spilled) |-> history.spilled[k][p]]

\* rows in the order they were ingested
Ascending(rows) ==
    \A i, j \in DOMAIN rows : i < j => rows[i].id < rows[j].id

\* every row of a was ingested before every row of b
AllBefore(a, b) == \A x \in Elements(a), y \in Elements(b) : x.id < y.id

\* C5 as stated: ingest order within a partition.  The range of a partition
\* is its in-memory part followed by its part of every spill in spill order,
\* and inside the in-memory part and inside each spill no row follows a row
\* ingested later.
C5_IngestOrder ==
    Done =>
        \A p \in Partitions :
            /\ PartitionRange(p) = Flatten(Segments(p))
            /\ \A k \in DOMAIN Segments(p) : Ascending(RowsOf(Segments(p)[k]))

\* C5 amended: the range of a partition is its in-memory frames followed by
\* its frames of every spill in spill order; inside one frame the rows are
\* in ingest order, every row of a spill was ingested before every row of a
\* later spill and before every in-memory row.  (Frames inside one part
\* follow the order they were frozen in: a bucket of more than batch_size
\* rows is frozen ahead of earlier rows still in the active builder.)
C5_FrameOrder ==
    Done =>
        \A p \in Partitions :
            LET segments == Segments(p)
                rows == [k \in DOMAIN segments |-> RowsOf(segments[k])]
            IN  /\ PartitionRange(p) = Flatten(segments)
                /\ \A k \in DOMAIN segments :
                      \A f \in Elements(Frames(segments[k])) :
                          Ascending(FrameRows(f))
                /\ \A k, l \in DOMAIN segments :
                      (1 < k /\ k < l) => AllBefore(rows[k], rows[l])
                /\ \A k \in DOMAIN segments :
                      1 < k => AllBefore(rows[k], rows[1])

\* a finalized run with a spill that carried rows, in which one part of a
\* partition holds a fast-path frame ahead of a row ingested before it
C5_Witness ==
    /\ Done
    /\ history.carried
    /\ \E p \in Partitions : \E k \in DOMAIN Segments(p) :
          ~Ascending(RowsOf(Segments(p)[k]))

\* every frame of a well-framed byte range decodes: its payload is one
\* compressed stream and its second length is the uncompressed stream length
\* of the rows it holds
RECURSIVE FramesDecode(_)
FramesDecode(bs) ==
    \/ bs = << >>
    \/ LET n == compressed_len(bs)
           payload == SubSeq(bs, HeaderLen + 1, HeaderLen + n)
       IN  /\ n >= 1
           /\ payload[1] = ZstdMagic
           /\ uncompressed_len(bs) = written_length(FrameRows(payload))
           /\ FramesDecode(SubSeq(bs, HeaderLen + n + 1, Len(bs)))

\* C6: frame well-formedness.  After a successful finalize every partition
\* range is a concatenation of complete frames, a 16-byte header followed by
\* exactly compressed_len payload bytes, also when several spills feed it;
\* walking the frames consumes the range exactly and every frame decodes.
C6_FrameWellFormed ==
    Done => \A p \in Partitions :
                /\ WellFramed(PartitionRange(p))
                /\ FramesDecode(PartitionRange(p))

\* a finalized run in which one partition range is assembled from in-memory
\* frames and from the frames of two spills
C6_Witness ==
    /\ Done
    /\ \E p \in Partitions :
          /\ history.memory[p] # << >>
          /\ Cardinality({k \in DOMAIN history.spilled :
                             history.spilled[k][p] # << >>}) >= 2
          /\ Len(Frames(PartitionRange(p))) >= 3

\* C7: after a successful finalize mem_used is 0 and the arbiter accounts no
\* byte to the writer any more.
C7_MemReleased == Done => (mem_used = 0 /\ arbiter = 0)

\* a finalized run whose finalize had bytes to release, after a spill
C7_Witness == Done /\ history.released > 0 /\ spill_count >= 1

\* batch_byte_size of all batches held in the partition buffers: the rows in
\* the active builders and the rows of the frames in frozen
RECURSIVE HeldBytes(_, _)
HeldBytes(bufs, n) ==
    IF n = 0 THEN 0
    ELSE batch_byte_size(bufs[n - 1].rows)
           + batch_byte_size(RowsOf(bufs[n - 1].frozen.bytes))
           + HeldBytes(bufs, n - 1)

\* no insert_batch, spill or shuffle_write call is in progress
Quiescent == pcW = "next" /\ pcS = "idle"

\* C8: during ingest, whenever the insert_batch and spill calls made so far
\* have returned, mem_used is at most the uncompressed size of the batches
\* held in the partition buffers (no slack is needed).
C8_MemBound ==
    Quiescent => mem_used <= HeldBytes(buffered_partitions, num_output_partitions)

\* between two calls: bytes are claimed, frames are frozen, and compression
\* has given some of the claim back
C8_Witness ==
    /\ Quiescent
    /\ mem_used > 0
    /\ mem_used < HeldBytes(buffered_partitions, num_output_partitions)
    /\ \E p \in Partitions : buffered_partitions[p].frozen.bytes # << >>

\* C9: insert_batch with a non-empty batch after finalize has completed
\* returns an error and buffers no row.
C9_LateInsertRejected ==
    (history.lateInsert /\ insertResult \in {"Ok", "Err"}) =>
        /\ insertResult = "Err"
        /\ \A p \in Partitions :
              /\ buffered_partitions[p].rows = << >>
              /\ buffered_partitions[p].frozen.bytes = << >>

\* C10 as stated: spill() after finalize has completed returns 0.
C10_LateSpillReturnsZero ==
    (history.lateSpill /\ spillResult.status \in {"Ok", "Err"}) =>
        spillResult = Ok(0)

\* C10 amended: spill() after finalize has completed returns 0 when no
\* insert_batch was made after finalize, unless its temp file cannot be
\* created or written, and then it returns that error.
C10_LateSpillZeroOrError ==
    (/\ history.lateSpill
     /\ ~history.lateInsert
     /\ spillResult.status \in {"Ok", "Err"}) =>
        spillResult \in {Ok(0), Err}

\* a spill() called after a finalize that had bytes to release, and with no
\* insert_batch after it, returned Ok
C10_Witness ==
    /\ Done
    /\ history.lateSpill /\ ~history.lateInsert
    /\ spillResult.status = "Ok"
    /\ history.released > 0

\* the shapes the operator supports: hash partitioning into P >= 1
\* partitions by at least one expression
Supported(part) == part.kind = "Hash" /\ part.count >= 1 /\ part.exprs >= 1

\* C11: try_new with a partitioning that is not hash partitioning with
\* P >= 1 and a non-empty expression list returns an error.
C11_RejectedAtConstruction ==
    ~Supported(partitioning) => try_new(partitioning) = "Err"

\* C12: under round-robin partitioning, for every input stream, the first
\* insert_batch (try_new having returned Ok) returns the unsupported-
\* partitioning error, the writer never completes and neither the data file
\* nor the index file is created.
C12_RoundRobinUnsupported ==
    partitioning.kind = "RoundRobinBatch" =>
        /\ insertResult \in {"none", "running", "Err"}
        /\ ~Done
        /\ ~data_file.exists /\ ~index_file.exists

\* ShuffleWriterExec::execute: stream::once(external_shuffle(..)).try_flatten()
\* yields what the stream external_shuffle returned yields (an empty
\* MemoryStream), or the one error it returned; a panic unwinds through the
\* poll and the stream yields nothing
execute ==
    CASE pcW = "done" -> [yields |-> << >>, ended |-> TRUE]
      [] pcW = "error" -> [yields |-> << "Err" >>, ended |-> TRUE]
      [] OTHER -> [yields |-> << >>, ended |-> FALSE]

\* the writer task is over: it returned or it panicked
TaskOver == pcW \in {"done", "error", "panic"}

\* C13: the stream of the operator never yields a row; when the task is over
\* it has either yielded nothing and completed, finalize having succeeded,
\* or yielded exactly one error and terminated; after an error of
\* insert_batch finalize is not run (no output file exists).
C13_StreamOutcome ==
    /\ execute.yields \in {<< >>, << "Err" >>}
    /\ TaskOver =>
          /\ execute.ended
          /\ \/ execute.yields = << >> /\ finalized
             \/ execute.yields = << "Err" >> /\ ~finalized
    /\ insertResult = "Err" => (~data_file.exists /\ ~index_file.exists)

\* C14: empty input.  When the input stream yielded no batch, or empty
\* batches only, a successful finalize has created both files, the data
\* file is empty and the index file holds P+1 offsets of 8 bytes, all 0.
C14_EmptyInput ==
    (Done /\ history.ingested = << >>) =>
        /\ data_file.exists /\ data_file.bytes = << >>
        /\ index_file.exists
        /\ index_file.bytes =
              [j \in 1 .. (num_output_partitions + 1) * LenField |-> 0]
        /\ IndexOffsets = [j \in 1 .. (num_output_partitions + 1) |-> 0]

\* a finalized run whose input was an empty batch, with a spill before
\* finalize
C14_Witness ==
    /\ Done /\ ~history.lateSpill
    /\ history.ingested = << >>
    /\ insertResult = "Ok"
    /\ spill_count >= 1

\* the offsets of the SpillInfo of the k-th spill
SpillInfoOffsets(k) == SpillOffsets(history.spilled[k], num_output_partitions)

\* C15: merge layout.  After a successful finalize the range of partition i
\* is the frozen bytes of i taken at finalize followed, spill after spill in
\* the order of the spills, by exactly the offsets[i+1] - offsets[i] bytes
\* that partition i handed to that spill, and by nothing else.
C15_MergeLayout ==
    Done =>
        \A p \in Partitions :
            /\ PartitionRange(p) =
                  history.memory[p]
                    \o Flatten([k \in 1 .. Len(history.spilled) |->
                                    history.spilled[k][p]])
            /\ \A k \in 1 .. Len(history.spilled) :
                  Len(history.spilled[k][p]) =
                      SpillInfoOffsets(k)[p + 2] - SpillInfoOffsets(k)[p + 1]

\* a finalized run with bytes in memory and two spills that carried bytes,
\* one of them for every partition
C15_Witness ==
    /\ Done
    /\ \E p \in Partitions : history.memory[p] # << >>
    /\ \E k, l \in 1 .. Len(history.spilled) :
          /\ k # l
          /\ \A p \in Partitions : history.spilled[k][p] # << >>
          /\ \E p \in Partitions : history.spilled[l][p] # << >>

\* C16: the buffers mutex is never held while the join of a blocking worker
\* is awaited, neither by spill() nor by finalize.
C16_NoLockAcrossJoin ==
    /\ pcS = "worker" => lock # "spill"
    /\ pcW = "merge" => lock # "writer"

\* a step in which a spill() that had something to spill returns Ok
SpillReturns ==
    /\ pcS = "worker" /\ pcS' = "idle"
    /\ spillResult'.status = "Ok"
    /\ history.atCall.something

\* what C17 says of that step, but for the value returned
SpillBookkeeping ==
    /\ mem_used' = 0
    /\ spilled_bytes' = spilled_bytes + spillResult'.freed
    /\ spill_count' = spill_count + 1
    /\ Len(spills') = Len(spills) + 1
    /\ SubSeq(spills', 1, Len(spills)) = spills
    /\ \A p \in Partitions :
          /\ buffered_partitions'[p].frozen.bytes = << >>
          /\ buffered_partitions'[p].rows = << >>

EmptySpillReturns ==
    /\ pcS = "worker" /\ pcS' = "idle"
    /\ spillResult'.status = "Ok"
    /\ ~history.atCall.something

\* C18: spill() with nothing to spill returns 0 and changes nothing: no
\* SpillInfo (and no temp file) is added, spill_count and spilled_bytes keep
\* their values.
C18_EmptySpillIsNoOp ==
    [][EmptySpillReturns =>
          /\ spillResult'.freed = 0
          /\ spills' = spills
          /\ spill_count' = spill_count
          /\ spilled_bytes' = spilled_bytes]_vars

\* the bytes the partitions handed to the spill that made spills[j]: the
\* SpillInfos of spills are the latest spills taken
TakenBySpill(j) == history.spilled[Len(history.spilled) - Len(spills) + j]

\* one SpillInfo against the frozen bytes (taken) its spill took from the
\* partitions
SpillInfoOk(info, taken) ==
    /\ Len(info.offsets) = num_output_partitions + 1
    /\ info.offsets[1] = 0
    /\ info.offsets[num_output_partitions + 1] = Len(info.file)
    /\ \A p \in Partitions :
          /\ info.offsets[p + 1] <= info.offsets[p + 2]
          /\ info.offsets[p + 2] - info.offsets[p + 1] = Len(taken[p])
          /\ SubSeq(info.file, info.offsets[p + 1] + 1, info.offsets[p + 2])
                = taken[p]

\* C19: every SpillInfo in spills, and every one handed to the merge, has
\* P+1 offsets, offsets[0] = 0, non-decreasing, offsets[i+1] - offsets[i]
\* the number of frozen bytes partition i held when the spill was taken, its
\* builder flushed, and offsets[P] the length of the spill file.
C19_SpillOffsets ==
    /\ Len(spills) <= Len(history.spilled)
    /\ \A j \in 1 .. Len(spills) : SpillInfoOk(spills[j], TakenBySpill(j))
    /\ \A j \in 1 .. Len(output_spills) :
          SpillInfoOk(output_spills[j], history.spilled[j])

\* two SpillInfos in spills, the second with bytes of every partition, some
\* of them flushed from an active builder by the spill
C19_Witness ==
    /\ Len(spills) = 2
    /\ \A p \in Partitions : spills[2].offsets[p + 1] < spills[2].offsets[p + 2]
    /\ spills[1].offsets[num_output_partitions + 1] > 0

\* the step in which finalize returns Ok
FinalizeReturns == pcW = "merge" /\ pcW' = "done"

\* C20 as stated: after finalize completes, every partition's active is
\* None and its frozen is empty.
C20_ActiveNone ==
    [][FinalizeReturns =>
          \A p \in Partitions :
              /\ ~buffered_partitions'[p].some
              /\ buffered_partitions'[p].frozen.bytes = << >>]_vars

\* C20 amended: after finalize completes, every partition's frozen is an
\* empty Vec and its active builder holds no row; active is None only where
\* no builder was ever made, elsewhere it is the reset builder.
C20_BuffersEmptied ==
    [][FinalizeReturns =>
          \A p \in Partitions :
              /\ buffered_partitions'[p].rows = << >>
              /\ buffered_partitions'[p].frozen = EmptyVec]_vars

\* finalize has completed on a writer one of whose partitions had rows in
\* its active builder and frozen frames, and that builder is still there
C20_Witness ==
    /\ Done
    /\ \E p \in Partitions :
          /\ buffered_partitions[p].some
          /\ Len(Frames(history.memory[p])) >= 2
          /\ buffered_partitions[p].rows = << >>
          /\ buffered_partitions[p].frozen = EmptyVec

\* C21: in every reachable state, the one a failed encode leaves behind
\* included, the frozen buffer of every partition is a concatenation of
\* complete frames with their length fields filled in; no placeholder header
\* and no partial payload stays in it.
C21_FrozenWellFramed ==
    pcW # "dropped" =>
        \A p \in Partitions :
            /\ WellFramed(buffered_partitions[p].frozen.bytes)
            /\ FramesDecode(buffered_partitions[p].frozen.bytes)

\* a turn of the bucket loop that has run to its end
BucketTurn ==
    /\ pcW = "bucket"
    /\ pcW' \in {"bucket", "next", "done"}
    /\ pcS' = pcS
    /\ nSpills' = nSpills
    /\ buffered_partitions' # buffered_partitions

\* the turn's rows go to the active builder and bring it to batch_size rows
\* or more
BuilderFills ==
    LET rows == take(input, indices(input, num_output_partitions)[cursor])
    IN  /\ BucketTurn
        /\ Len(rows) <= batch_size
        /\ Len(buffered_partitions[cursor].rows \o rows) >= batch_size

\* C22: no step leaves batch_size rows or more in an active builder, so after
\* every insert_batch that returned each builder holds fewer; a turn of the
\* bucket loop whose append brings the builder to batch_size rows or more
\* appends exactly one frame, holding all the builder's rows, to frozen and
\* leaves the builder empty.
C22_BuilderBelowBatchSize ==
    [][ /\ \A p \in Partitions :
              Len(buffered_partitions'[p].rows) < batch_size
        /\ BuilderFills =>
              LET before == buffered_partitions[cursor]
                  after == buffered_partitions'[cursor]
                  rows == take(input,
                               indices(input, num_output_partitions)[cursor])
                  frames == Frames(after.frozen.bytes)
              IN  /\ Len(frames) = Len(Frames(before.frozen.bytes)) + 1
                  /\ SubSeq(frames, 1, Len(frames) - 1)
                        = Frames(before.frozen.bytes)
                  /\ FrameRows(frames[Len(frames)]) = before.rows \o rows
                  /\ after.some /\ after.rows = << >> ]_vars

\* insert_batch has returned after a builder that held a row of an earlier
\* batch was filled by a later one: the frame holds rows of both
C22_Witness ==
    /\ pcW = "next" /\ insertResult = "Ok"
    /\ \E p \in Partitions :
          LET frames == Frames(buffered_partitions[p].frozen.bytes)
          IN  /\ buffered_partitions[p].some
              /\ buffered_partitions[p].rows = << >>
              /\ \E i \in 1 .. Len(frames) :
                    LET rs == FrameRows(frames[i])
                    IN  /\ Len(rs) >= batch_size
                        /\ \E a, b \in 1 .. Len(rs) :
                              rs[b].id > rs[a].id + 1

\* C23: PartitionBuffer::finish is idempotent.  On every partition buffer the
\* writer can hold, finish called twice leaves frozen and active as finish
\* called once does (the second call appends no frame), and finish on a
\* buffer whose builder holds no rows leaves frozen as it is.
C23_FinishIdempotent ==
    \A p \in Partitions :
        LET buf == buffered_partitions[p]
            once == finish(buf)
            old == buf.frozen.bytes
            new == once.frozen.bytes
        IN  /\ finish(once) = once
            /\ buf.rows = << >> => once.frozen = buf.frozen
            /\ SubSeq(new, 1, Len(old)) = old
            /\ Frames(SubSeq(new, Len(old) + 1, Len(new)))
                  = (IF buf.rows = << >> THEN << >>
                     ELSE << ZstdIpcStream(buf.rows) >>)

\* one buffer holds frames and a builder with rows, so that finish appends a
\* frame to it, and another holds a builder that was reset by a finish
C23_Witness ==
    /\ \E p \in Partitions :
          /\ buffered_partitions[p].some
          /\ buffered_partitions[p].rows # << >>
          /\ buffered_partitions[p].frozen.bytes # << >>
          /\ finish(buffered_partitions[p]) # buffered_partitions[p]
    /\ \E p \in Partitions :
          /\ buffered_partitions[p].some
          /\ buffered_partitions[p].rows = << >>
          /\ spill_count >= 1

\* the input stream yields a batch of no rows and insert_batch is called with
\* it: the one step of the idle writer that numbers no row and is neither a
\* step of spill nor the start of shuffle_write
EmptyInsert ==
    /\ pcW = "next"
    /\ pcW' # "merge"
    /\ nextId' = nextId
    /\ nSpills' = nSpills
    /\ pcS' = pcS

\* C24: insert_batch with a batch of zero rows returns Ok and changes nothing
\* of the writer: no grow request reaches the arbiter, and output_rows,
\* mem_used, every partition buffer, spills and the spill metrics keep their
\* values.
C24_EmptyBatchNoOp ==
    [][ EmptyInsert =>
          /\ insertResult' = "Ok"
          /\ pcW' = "next"
          /\ UNCHANGED << arbiter, output_rows, mem_used, buffered_partitions,
                          spills, spilled_bytes, spill_count, input, cursor,
                          lock, finalized, output_batches, output_spills,
                          data_file, index_file, tmp_files >> ]_vars

\* insert_batch has returned Ok and no row was ever ingested: the batches it
\* was called with were empty
C24_Witness ==
    /\ pcW = "next"
    /\ insertResult = "Ok"
    /\ history.ingested = << >>
    /\ output_rows = 0

\* C25: spill temp files do not outlive the writer.  Once the repartitioner
\* has been dropped, after a successful finalize, after an error or a panic,
\* or by cancellation, no temp file made for a spill exists any more and the
\* spills list is empty.
C25_TempFilesDeleted ==
    pcW = "dropped" => (tmp_files = 0 /\ spills = << >>)

\* the temp files that exist are those the SpillInfos and a running spill
\* call own, and a task that ended otherwise than by cancellation leaves none
C25_DeletedWhenNotCancelled ==
    /\ pcW # "dropped" =>
          tmp_files = Len(spills) + Len(output_spills)
                        + (IF pcS = "worker" THEN 1 ELSE 0)
    /\ (pcW = "dropped" /\ history.over # "cancelled") => tmp_files = 0

\* C26: the bytes the arbiter accounts to the writer (granted by try_grow,
\* less what shrink and spill gave back) equal mem_used whenever no
\* insert_batch, spill or shuffle_write call is in progress, after an error
\* or a panic too; once the writer is dropped the arbiter accounts 0 bytes
\* to it.
C26_ArbiterInStep ==
    /\ (pcW \in {"next", "done", "error", "panic"} /\ pcS = "idle")
          => arbiter = mem_used
    /\ pcW = "dropped" => arbiter = 0

\* the writer was dropped after an error that left it with claimed memory,
\* compression having given some of its claims back before
C26_Witness ==
    /\ pcW = "dropped"
    /\ history.over = "error"
    /\ mem_used > 0
    /\ mem_used < batch_byte_size(history.ingested)
    /\ arbiter = 0

\* C27: each time a turn of the bucket loop freezes a batch, on the fast path
\* or from a full builder, batch_byte_size of the batch less the increase of
\* frozen's capacity is not negative, so the unsigned subtraction does not
\* underflow, and the amount shrunk is at most mem_used.
C27_ShrinkNoUnderflow ==
    (pcW = "bucket" /\ Hashed /\ lock = "free") =>
        LET out == BucketOutcome(buffered_partitions)
        IN  out.froze =>
                /\ out.size - out.increase >= 0
                /\ ~Underflows(out)
                /\ to_shrink(mem_used, out.size, out.increase) <= mem_used

\* C28: spill and finalize are atomic to each other.  No spill worker runs
\* while finalize merges; when finalize has read the buffers and drained
\* spills, the list it drained holds the SpillInfo of every spill that took
\* buffers before, in order, so that their bytes are merged; and every
\* SpillInfo appended to spills from then on holds no row.
C28_SpillAtomicWithFinalize ==
    /\ ~(pcW = "merge" /\ pcS = "worker")
    /\ pcW = "merge" =>
          /\ spills = << >>
          /\ Len(output_spills) = Len(history.spilled)
          /\ \A k \in 1 .. Len(output_spills) :
                output_spills[k].file
                  = SpillFile(history.spilled[k], num_output_partitions)
    /\ pcW \in {"merge", "done"} =>
          \A i \in 1 .. Len(spills) : spills[i].file = << >>

\* finalize succeeded after a spill that carried rows, and a spill that ran
\* after it has appended its SpillInfo
C28_Witness ==
    /\ Done
    /\ Len(spills) >= 1
    /\ \E k \in 1 .. Len(history.spilled) :
          \E p \in Partitions : history.spilled[k][p] # << >>
    /\ \A p \in Partitions : RowsOf(PartitionRange(p)) # << >>

\* C29: deadlock freedom and termination.  With a finite input, an arbiter
\* that answers and workers that finish, the writer task comes to its end
\* under every interleaving with spill calls: shuffle_write has returned Ok,
\* or the task has ended with an error (an Err returned, or the panic of the
\* unsigned subtraction in a build that checks it).  try_grow is never
\* awaited with the buffers mutex held, and a running spill worker always
\* holds the buffers mutex, so the three calls wait on each other in no
\* cycle.
C29_Termination ==
    /\ [](pcW = "grow" => lock # "writer")
    /\ [](pcS = "worker" => lock = "spill")
    /\ <>TaskOver

\* the task ended by a successful finalize after an insert_batch had to wait
\* for the buffers mutex a spill held, and a second spill ran too
C29_Witness ==
    /\ Done
    /\ history.midSpill
    /\ spill_count >= 2
    /\ output_rows >= 2

\* BucketReady is the enabling condition of the bucket turn
C29_BucketReadyIsEnabled ==
    BucketReady <=> ENABLED <<BucketStep \/ BucketPanic>>_vars

\* the value rescaled as arithmetic has it: rounded half away from zero by
\* adding half a unit of the target scale to the magnitude and cutting the
\* digits off, or multiplied by the power of ten
Rescaled(v, scale, to_scale) ==
    IF to_scale < scale
    THEN Int128(v.neg,
                DivPow10(Add(v.mag, << 5 >> \o Zeros(scale - to_scale - 1)),
                         scale - to_scale))
    ELSE Int128(v.neg, TimesPow10(v.mag, to_scale - scale))

\* what the call has to return
Expected(v, precision, scale, to_precision, to_scale) ==
    IF to_precision = precision /\ to_scale = scale THEN Some(v)
    ELSE IF Less(Rescaled(v, scale, to_scale).mag,
                 Pow10(Min(to_precision, MaxSparkPrecision)))
    THEN Some(Rescaled(v, scale, to_scale))
    ELSE None

\* C30: change_precision_round_half_up returns, for every i128 value and all
\* scales from 0 to 38, Some of the value rescaled to the target scale
\* (rounded half away from zero, or multiplied by a power of ten) when its
\* magnitude is below 10^min(to_precision, 38) and None otherwise, the input
\* itself when precision and scale do not change, and no operation in it
\* overflows the i128.
C30_RescaleExact ==
    decimal.called =>
        /\ decimal.result.status # "overflow"
        /\ decimal.result = Expected(decimal.i128_val, decimal.precision,
                                     decimal.scale, decimal.to_precision,
                                     decimal.to_scale)

\* the calls in which no operation overflows return what they have to
C30_ExactUnlessOverflow ==
    (decimal.called /\ decimal.result.status # "overflow") =>
        decimal.result = Expected(decimal.i128_val, decimal.precision,
                                  decimal.scale, decimal.to_precision,
                                  decimal.to_scale)

\* a call in which a negative value was rounded away from zero
C30_RoundedUp ==
    /\ decimal.called
    /\ decimal.to_scale < decimal.scale
    /\ decimal.result.status = "Some"
    /\ decimal.result.value.neg
    /\ decimal.result.value.mag
          = Add(DivPow10(decimal.i128_val.mag,
                         decimal.scale - decimal.to_scale), << 1 >>)

====
